---- MODULE Spec2Model ----
(***************************************************************************)
(* The API-call middleware of src/middleware/api.js: an action with a call *)
(* descriptor under CALL_FBOG is validated, a request action is forwarded  *)
(* to next, the endpoint is fetched, and the fetch's end is forwarded as a *)
(* success or a failure action.                                            *)
(***************************************************************************)
EXTENDS Integers, Sequences, FiniteSets, TLC

\* ------------------------------------------------------------------ bounds
\* Number of middleware invocations of the general specification.
MaxCalls == 1
\* Number of middleware invocations of the concurrent specification.
MaxConcurrent == 2

\* ------------------------------------------------------------ JS values
\* The marker key (a Symbol) and the names of the action fields used here.
CALL_FBOG == "@@CALL_FBOG"

\* A property that is absent reads as undefined.
NoMsg == "<undefined>"
NoId == "undefined"

\* A JSON / JS value as the middleware sees it: its typeof-like kind, its
\* `message`, `id` and `events` properties and its other own keys.
Value(k, message, id, events, keys) ==
    [k |-> k, message |-> message, id |-> id, events |-> events, keys |-> keys]

Undefined == Value("undefined", NoMsg, NoId, <<>>, {})
Obj(message) == Value("object", message, NoId, <<>>, {})
ErrorObj(message) == Value("error", message, NoId, <<>>, {})
PageJson == Value("object", NoMsg, "p1", <<"e2", "e1">>, {"start_time"})

\* What an envelope's data, or a rejection, can be.
DataValues == {Undefined, Obj(NoMsg), Obj("boom"), PageJson}

\* ---------------------------------------------------------- descriptors
Str(v) == [k |-> "string", v |-> v]
Num(v) == [k |-> "number", v |-> v]
Fun(v) == [k |-> "function", v |-> v]

\* The store's states, as the endpoint functions see them.
StoreStates == {"s0", "s1"}

\* endpoint: a URL, a function of the state giving a URL, a function giving
\* something else, or no string at all.
Endpoints == {Str("/u0"), Fun("byState"), Fun("notString"), Num("42")}

\* Calling a function-valued endpoint with a state snapshot.
ApplyEndpoint(fn, snapshot) ==
    IF fn = "byState"
    THEN Str(IF snapshot = "s0" THEN "/u0" ELSE "/u1")
    ELSE Num("7")

\* schema: an exported schema, or a falsy value.
SchemaValues == {"PAGE", "undefined"}
IsSchemaObject(schema) == schema \in {"PAGE", "EVENT"}

\* types: a triple of strings, and the malformed shapes line 75-80 rejects.
Types(isArray, elems) == [isArray |-> isArray, elems |-> elems]
TypesA == Types(TRUE, <<Str("REQ_A"), Str("OK_A"), Str("FAIL_A")>>)
TypesB == Types(TRUE, <<Str("REQ_B"), Str("OK_B"), Str("FAIL_B")>>)
TypesValues ==
    { TypesA,
      Types(TRUE, <<Str("REQ_A"), Str("OK_A")>>),
      Types(TRUE, <<Str("REQ_A"), Num("1")>>),
      Types(TRUE, <<Str("REQ_A"), Num("1"), Str("FAIL_A")>>),
      Types(FALSE, <<>>) }

Descriptor(endpoint, schema, types) ==
    [endpoint |-> endpoint, schema |-> schema, types |-> types]

\* ------------------------------------------------------------- actions
\* A Redux action is a mapping from field names to values.
Assign(target, source) ==
    [f \in DOMAIN target \cup DOMAIN source |->
        IF f \in DOMAIN source THEN source[f] ELSE target[f]]

Delete(obj, field) == [f \in DOMAIN obj \ {field} |-> obj[f]]

\* The shapes of the dispatched actions: a plain one, and one that already
\* has an `error` field of its own.
PlainActions ==
    { [type |-> "LOAD", payload |-> "x"],
      [type |-> "LOAD", payload |-> "x", error |-> "stale"] }

WithCall(action, callAPI) == Assign(action, (CALL_FBOG :> callAPI))

\* -------------------------------------------------------- pure helpers
\* humps.camelizeKeys: objects get their keys camelized, anything else is
\* returned as it is.
Camelize(key) == IF key = "start_time" THEN "startTime" ELSE key

camelizeKeys(data) ==
    IF data.k = "object"
    THEN [data EXCEPT !.keys = {Camelize(key) : key \in data.keys}]
    ELSE data

\* The keys of the two schemas: new Schema('pages') and new Schema('events').
pageSchemaKey == "pages"
eventSchemaKey == "events"

\* What the `events` property of a stored entity holds: nothing ("absent"),
\* the id of one entity ("id"), a list of ids ("list"), or the value as it
\* came ("inline").
Ref(k, ids) == [k |-> k, ids |-> ids]

\* A stored entity of the normalized result: the schema key it is filed
\* under, its id, its `events` property, the items it holds itself, and its
\* other keys.
Entity(key, id, ref, items, keys) ==
    [key |-> key, id |-> id, events |-> ref, items |-> items, keys |-> keys]

NoResponse == [result |-> "<none>", entities |-> {}]

\* normalizr's normalize with the schemas of lines 30-48: the input must be
\* an object and the schema a schema object, else it throws; a page is
\* stored under `pages`, its `events` value is visited with eventSchema
\* (one entity, line 39) and replaced by that entity's id.
NormalizeThrows(obj, schema) ==
    IF obj.k # "object"
    THEN "Normalize accepts an object or an array as its input."
    ELSE IF ~IsSchemaObject(schema)
    THEN "Normalize accepts an object for schema."
    ELSE ""

normalize(obj, schema) ==
    IF schema = "PAGE"
    THEN [ result |-> obj.id,
           entities |->
             {Entity(pageSchemaKey, obj.id,
                     IF obj.events # <<>> THEN Ref("id", <<NoId>>) ELSE Ref("absent", <<>>),
                     <<>>, obj.keys)}
             \cup (IF obj.events # <<>>
                   THEN {Entity(eventSchemaKey, NoId, Ref("absent", <<>>), obj.events, {})}
                   ELSE {}) ]
    ELSE [ result |-> obj.id,
           entities |->
             {Entity(eventSchemaKey, obj.id, Ref("inline", <<>>), obj.events, obj.keys)} ]

\* The outcome of a promise: pending, fulfilled with a response, or rejected
\* with a reason.
Pending == [st |-> "pending", response |-> NoResponse, reason |-> Undefined]
Fulfilled(response) == [st |-> "fulfilled", response |-> response, reason |-> Undefined]
Rejected(reason) == [st |-> "rejected", response |-> NoResponse, reason |-> reason]

\* callFbogThen without the test of response.ok.
callFbogThenIgnoreOk(envelope, schema) ==
    LET camelizedJson == camelizeKeys(envelope.data) IN
    IF NormalizeThrows(camelizedJson, schema) # ""
    THEN Rejected(ErrorObj(NormalizeThrows(camelizedJson, schema)))
    ELSE Fulfilled(normalize(camelizedJson, schema))

\* callFbog's fulfilment handler (lines 10-19) applied to an envelope.
callFbogThen(envelope, schema) ==
    LET data == envelope.data IN
    IF ~envelope.ok
    THEN Rejected(data)
    ELSE LET camelizedJson == camelizeKeys(data) IN
         IF NormalizeThrows(camelizedJson, schema) # ""
         THEN Rejected(ErrorObj(NormalizeThrows(camelizedJson, schema)))
         ELSE Fulfilled(normalize(camelizedJson, schema))

\* Reading error.message throws a TypeError when error is undefined.
MessageThrows(error) == error.k = "undefined"

Placeholder == "Something bad happened"

\* error.message || 'Something bad happened' (line 100).
errorMessage(error) ==
    IF error.message \in {NoMsg, ""} THEN Placeholder ELSE error.message

\* Validate with the schema looked at before the endpoint.
ValidateSchemaFirst(endpoint, schema, types) ==
    IF schema = "undefined"
    THEN "Specify one of the exported Schemas."
    ELSE IF endpoint.k # "string"
    THEN "Specify a string endpoint URL."
    ELSE IF ~types.isArray \/ Len(types.elems) # 3
    THEN "Expected an array of three action types."
    ELSE IF \E i \in 1..Len(types.elems) : types.elems[i].k # "string"
    THEN "Expected action types to be strings."
    ELSE ""

\* Validate without the check of the elements of types.
ValidateNoEvery(endpoint, schema, types) ==
    IF endpoint.k # "string"
    THEN "Specify a string endpoint URL."
    ELSE IF schema = "undefined"
    THEN "Specify one of the exported Schemas."
    ELSE IF ~types.isArray \/ Len(types.elems) # 3
    THEN "Expected an array of three action types."
    ELSE ""

\* The validation of lines 69-80: the message of the Error thrown, "" if none.
Validate(endpoint, schema, types) ==
    IF endpoint.k # "string"
    THEN "Specify a string endpoint URL."
    ELSE IF schema = "undefined"
    THEN "Specify one of the exported Schemas."
    ELSE IF ~types.isArray \/ Len(types.elems) # 3
    THEN "Expected an array of three action types."
    ELSE IF \E i \in 1..Len(types.elems) : types.elems[i].k # "string"
    THEN "Expected action types to be strings."
    ELSE ""

\* actionWith without the delete of line 84.
actionWithDescriptor(action, data) == Assign(action, data)

\* actionWith (lines 82-86): a copy of the action with data merged over it
\* and the call descriptor removed.
actionWith(action, data) == Delete(Assign(action, data), CALL_FBOG)

\* The dispatched object after actionWith: Object.assign's target is a fresh
\* object (line 83) and the delete acts on that copy (line 84).
AfterActionWith(action, data) == action

\* ------------------------------------------------------------------ state
VARIABLES
    state,   \* the store's state, as store.getState() returns it
    calls,   \* one record per invocation of the middleware, in dispatch order
    trace    \* what the invocations did to their environment, in order

vars == <<state, calls, trace>>

NoAction == [type |-> "<none>"]

\* One observable step: e is "getState", "next", "fetch", "return" or "throw";
\* c is the invocation; arg is the state snapshot, URL, result or message
\* that goes with it; at is the store's state when it was read.
Ev(e, c, action, arg, threw) ==
    [e |-> e, c |-> c, action |-> action, arg |-> arg, threw |-> threw,
     at |-> IF e = "getState" THEN state ELSE "-"]

\* What next does with an action: it returns a result or throws.
NextOutcomes == {[threw |-> FALSE, result |-> "nextResult"],
                 [threw |-> TRUE, result |-> "nextFault"]}

\* next(action) seen from the middleware.
CallNext(c, action, out) == Ev("next", c, action, out.result, out.threw)

\* The promise the middleware returns.
NoPromise == [st |-> "none", value |-> "", reason |-> Undefined]
PromisePending == [st |-> "pending", value |-> "", reason |-> Undefined]
PromiseFulfilled(value) == [st |-> "fulfilled", value |-> value, reason |-> Undefined]
PromiseRejected(reason) == [st |-> "rejected", value |-> "", reason |-> reason]

NoEnvelope == [ok |-> FALSE, data |-> Undefined]

\* An invocation: the action as it was dispatched, the action object as it
\* is now, the descriptor the invocation read from it (lines 57-63), where
\* the invocation is (pc), how it left the middleware (ret: "value", "throw"
\* or "promise"), the value it returned or the message it threw, the
\* resolved endpoint, the fetch (none, pending, fulfilled with an envelope,
\* rejected), callFbog's promise (api) and the promise returned.
NoCallAPI == Descriptor(Str(""), "undefined", Types(FALSE, <<>>))

Call(dispatched, action, pc, ret, value, endpoint, fetch, promise) ==
    [ dispatched |-> dispatched, action |-> action,
      callAPI |-> IF CALL_FBOG \in DOMAIN dispatched THEN dispatched[CALL_FBOG]
                  ELSE NoCallAPI,
      pc |-> pc, ret |-> ret, value |-> value,
      endpoint |-> endpoint, fetch |-> fetch, envelope |-> NoEnvelope,
      api |-> Pending, promise |-> promise ]

\* A state snapshot taken once, when the middleware was set up.
getStateStale(store) == "s0"

\* store.getState() (line 66).
getState(store) == store

\* callFbog that asks fBfetch twice.
callFbogTwice(c, endpoint) ==
    <<Ev("fetch", c, NoAction, endpoint.v, FALSE), Ev("fetch", c, NoAction, endpoint.v, FALSE)>>

\* callFbog that shares the fetch of a URL already asked for.
callFbogCoalesced(c, endpoint) ==
    IF \E i \in DOMAIN trace : trace[i].e = "fetch" /\ trace[i].arg = endpoint.v
    THEN <<>>
    ELSE <<Ev("fetch", c, NoAction, endpoint.v, FALSE)>>

\* callFbog(endpoint, schema) starts a fetch of the URL: fbsdk.fBfetch(endpoint)
\* (lines 8-9).
callFbog(c, endpoint) == <<Ev("fetch", c, NoAction, endpoint.v, FALSE)>>

\* The data of the request action (lines 88-91), of the success action
\* (lines 94-97) and of the failure action (lines 98-101).
RequestData(types) == [type |-> types.elems[1].v]

SuccessData(types, response) == [response |-> response, type |-> types.elems[2].v]

FailureData(types, error) == [type |-> types.elems[3].v, error |-> errorMessage(error)]

\* RequestSteps without the call of next.
RequestStepsNone(c, action, types, out) == <<>>

\* next(actionWith({type: requestType})) (lines 89-91).
RequestSteps(c, action, types, out) ==
    <<CallNext(c, actionWith(action, RequestData(types)), out)>>

\* PassThrough without the `return` of line 59.
PassThroughNoReturn(c, action, out) ==
    [ steps |-> <<CallNext(c, action, out),
                  Ev(IF out.threw THEN "throw" ELSE "return", c, NoAction,
                     IF out.threw THEN out.result ELSE "undefined", out.threw)>>,
      call |-> Call(action, action, IF out.threw THEN "threw" ELSE "returned",
                    IF out.threw THEN "throw" ELSE "value",
                    IF out.threw THEN out.result ELSE "undefined",
                    Str(""), "none", NoPromise) ]

\* The middleware body (lines 55-102) up to its return: the steps it takes
\* and the invocation record it leaves, for invocation c of `action` when
\* next answers the action forwarded with `out`.
PassThrough(c, action, out) ==
    [ steps |-> <<CallNext(c, action, out),
                  Ev(IF out.threw THEN "throw" ELSE "return", c, NoAction, out.result, out.threw)>>,
      call |-> Call(action, action, IF out.threw THEN "threw" ELSE "returned",
                    IF out.threw THEN "throw" ELSE "value", out.result,
                    Str(""), "none", NoPromise) ]

ResolveEndpoint(c, endpoint) ==
    IF endpoint.k = "function"
    THEN [ steps |-> <<Ev("getState", c, NoAction, getState(state), FALSE)>>,
           endpoint |-> ApplyEndpoint(endpoint.v, getState(state)) ]
    ELSE [ steps |-> <<>>, endpoint |-> endpoint ]

\* Intercept with a fault of next on the request action swallowed.
InterceptSwallow(c, action, out) ==
    LET callAPI == action[CALL_FBOG]
        resolved == ResolveEndpoint(c, callAPI.endpoint)
        endpoint == resolved.endpoint
        fault == Validate(endpoint, callAPI.schema, callAPI.types)
        request == RequestSteps(c, action, callAPI.types, out)
        after == AfterActionWith(action, RequestData(callAPI.types))
    IN  IF fault # ""
        THEN [ steps |-> resolved.steps \o <<Ev("throw", c, NoAction, fault, TRUE)>>,
               call |-> Call(action, action, "threw", "throw", fault, endpoint, "none",
                             NoPromise) ]
        ELSE [ steps |-> resolved.steps \o request \o callFbog(c, endpoint)
                           \o <<Ev("return", c, NoAction, "promise", FALSE)>>,
               call |-> Call(action, after, "fetching", "promise", "", endpoint, "pending",
                             PromisePending) ]

Intercept(c, action, out) ==
    LET callAPI == action[CALL_FBOG]
        resolved == ResolveEndpoint(c, callAPI.endpoint)
        endpoint == resolved.endpoint
        fault == Validate(endpoint, callAPI.schema, callAPI.types)
        request == RequestSteps(c, action, callAPI.types, out)
        after == AfterActionWith(action, RequestData(callAPI.types))
    IN  IF fault # ""
        THEN [ steps |-> resolved.steps \o <<Ev("throw", c, NoAction, fault, TRUE)>>,
               call |-> Call(action, action, "threw", "throw", fault, endpoint, "none",
                             NoPromise) ]
        ELSE IF out.threw
        THEN [ steps |-> resolved.steps \o request
                           \o <<Ev("throw", c, NoAction, out.result, TRUE)>>,
               call |-> Call(action, after, "threw", "throw", out.result, endpoint, "none",
                             NoPromise) ]
        ELSE [ steps |-> resolved.steps \o request \o callFbog(c, endpoint)
                           \o <<Ev("return", c, NoAction, "promise", FALSE)>>,
               call |-> Call(action, after, "fetching", "promise", "", endpoint, "pending",
                             PromisePending) ]

Middleware(c, action, out) ==
    IF CALL_FBOG \notin DOMAIN action
    THEN PassThrough(c, action, out)
    ELSE Intercept(c, action, out)

\* ---------------------------------------------------------------- inputs
CallDescriptors ==
    {Descriptor(e, s, t) : e \in Endpoints, s \in SchemaValues, t \in TypesValues}

DispatchedActions ==
    PlainActions \cup {WithCall(a, d) : a \in PlainActions, d \in CallDescriptors}

Envelopes == {[ok |-> ok, data |-> data] : ok \in BOOLEAN, data \in DataValues}

Rejections == DataValues \ {PageJson}

\* --------------------------------------------------------------- actions
Init ==
    /\ state \in StoreStates
    /\ calls = <<>>
    /\ trace = <<>>

\* dispatch(action) reaches the middleware: lines 55-102 run to the return.
Invoke(action, out, max) ==
    /\ Len(calls) < max
    /\ LET c == Len(calls) + 1
           run == Middleware(c, action, out)
       IN /\ calls' = Append(calls, run.call)
          /\ trace' = trace \o run.steps
    /\ UNCHANGED state

\* The fetch of invocation c resolves with an envelope.
FetchResolve(c, envelope) ==
    /\ calls[c].pc = "fetching"
    /\ calls' = [calls EXCEPT ![c].pc = "fetched", ![c].fetch = "fulfilled",
                                ![c].envelope = envelope]
    /\ UNCHANGED <<state, trace>>

\* The fetch of invocation c rejects: callFbog's promise, which has no
\* rejection handler of its own (line 10), rejects with the same reason.
FetchReject(c, reason) ==
    /\ calls[c].pc = "fetching"
    /\ calls' = [calls EXCEPT ![c].pc = "settled", ![c].fetch = "rejected",
                                ![c].api = Rejected(reason)]
    /\ UNCHANGED <<state, trace>>

\* callFbog's fulfilment handler runs (lines 10-19).
CallFbogThen(c) ==
    /\ calls[c].pc = "fetched"
    /\ calls' = [calls EXCEPT
                   ![c].pc = "settled",
                   ![c].api = callFbogThen(calls[c].envelope, calls[c].callAPI.schema)]
    /\ UNCHANGED <<state, trace>>

\* How a handler of lines 93-102 that forwards actionWith(data) goes: the
\* step it takes, the dispatched object afterwards, and the returned promise,
\* settled with next's result or with next's fault.
Forward(c, action, data, out) ==
    [ steps |-> <<CallNext(c, actionWith(action, data), out)>>,
      action |-> AfterActionWith(action, data),
      promise |-> IF out.threw THEN PromiseRejected(ErrorObj(out.result))
                  ELSE PromiseFulfilled(out.result) ]

\* OnResponse when the handlers are chained as then(success).catch(failure):
\* a fault of next on the success action reaches the rejection handler.
OnResponseCaught(c, out) ==
    /\ calls[c].pc = "settled"
    /\ calls[c].api.st = "fulfilled"
    /\ LET call == calls[c]
           run == Forward(c, call.action,
                          SuccessData(call.callAPI.types, call.api.response), out)
           caught == Forward(c, call.action,
                             FailureData(call.callAPI.types, ErrorObj(out.result)),
                             [threw |-> FALSE, result |-> "nextResult"])
       IN /\ calls' = [calls EXCEPT ![c].pc = "done", ![c].action = run.action,
                                     ![c].promise = IF out.threw THEN caught.promise
                                                    ELSE run.promise]
          /\ trace' = trace \o run.steps \o (IF out.threw THEN caught.steps ELSE <<>>)
    /\ UNCHANGED state

\* The fulfilment handler of lines 94-97.
OnResponse(c, out) ==
    /\ calls[c].pc = "settled"
    /\ calls[c].api.st = "fulfilled"
    /\ LET call == calls[c]
           run == Forward(c, call.action,
                          SuccessData(call.callAPI.types, call.api.response), out)
       IN /\ calls' = [calls EXCEPT ![c].pc = "done", ![c].action = run.action,
                                     ![c].promise = run.promise]
          /\ trace' = trace \o run.steps
    /\ UNCHANGED state

\* The rejection handler of lines 98-101: reading error.message throws when
\* error is undefined, and then nothing is forwarded.
HandleError(c, error, types, action, out) ==
    IF MessageThrows(error)
    THEN [ steps |-> <<>>,
           action |-> action,
           promise |-> PromiseRejected(ErrorObj("TypeError")) ]
    ELSE Forward(c, action, FailureData(types, error), out)

OnError(c, out) ==
    /\ calls[c].pc = "settled"
    /\ calls[c].api.st = "rejected"
    /\ LET call == calls[c]
           run == HandleError(c, call.api.reason, call.callAPI.types, call.action, out)
       IN /\ calls' = [calls EXCEPT ![c].pc = "done", ![c].action = run.action,
                                     ![c].promise = run.promise]
          /\ trace' = trace \o run.steps
    /\ UNCHANGED state

\* A reducer changes the store's state.
StateChange ==
    /\ \E s \in StoreStates \ {state} : state' = s
    /\ UNCHANGED <<calls, trace>>

Dispatch == \E a \in DispatchedActions, out \in NextOutcomes : Invoke(a, out, MaxCalls)
Resolve == \E c \in 1..Len(calls), envelope \in Envelopes : FetchResolve(c, envelope)
Reject == \E c \in 1..Len(calls), reason \in Rejections : FetchReject(c, reason)
Then == \E c \in 1..Len(calls) : CallFbogThen(c)
Success == \E c \in 1..Len(calls), out \in NextOutcomes : OnResponse(c, out)
Failure == \E c \in 1..Len(calls), out \in NextOutcomes : OnError(c, out)

Next ==
    \/ Dispatch
    \/ Resolve
    \/ Reject
    \/ Then
    \/ Success
    \/ Failure
    \/ StateChange

Spec == Init /\ [][Next]_vars

\* Several intercepted calls in flight at once: every call has a valid
\* descriptor and the same endpoint, and next returns normally.
ConcurrentActions ==
    { WithCall([type |-> "LOAD", payload |-> "x"], Descriptor(Str("/u0"), "PAGE", TypesA)),
      WithCall([type |-> "LOAD", payload |-> "y"], Descriptor(Str("/u0"), "PAGE", TypesB)) }

ConcurrentEnvelopes ==
    { [ok |-> TRUE, data |-> PageJson],
      [ok |-> TRUE, data |-> Obj(NoMsg)],
      [ok |-> FALSE, data |-> Obj("boom")] }

ConcurrentRejections == {Undefined, Obj(NoMsg)}

Returns == [threw |-> FALSE, result |-> "nextResult"]

DispatchC == \E a \in ConcurrentActions : Invoke(a, Returns, MaxConcurrent)
ResolveC == \E c \in 1..Len(calls), envelope \in ConcurrentEnvelopes : FetchResolve(c, envelope)
RejectC == \E c \in 1..Len(calls), reason \in ConcurrentRejections : FetchReject(c, reason)
SuccessC == \E c \in 1..Len(calls) : OnResponse(c, Returns)
FailureC == \E c \in 1..Len(calls) : OnError(c, Returns)

NextConcurrent ==
    \/ DispatchC
    \/ ResolveC
    \/ RejectC
    \/ Then
    \/ SuccessC
    \/ FailureC

SpecConcurrent == Init /\ [][NextConcurrent]_vars

\* ------------------------------------------------------------ vocabulary
Intercepted(c) == CALL_FBOG \in DOMAIN calls[c].dispatched

CallAPI(c) == calls[c].dispatched[CALL_FBOG]

RequestType(c) == CallAPI(c).types.elems[1].v
SuccessType(c) == CallAPI(c).types.elems[2].v
FailureType(c) == CallAPI(c).types.elems[3].v

\* The descriptor of invocation c is one the middleware must accept.
WellFormed(c) ==
    /\ calls[c].endpoint.k = "string"
    /\ CallAPI(c).schema # "undefined"
    /\ CallAPI(c).types.isArray
    /\ Len(CallAPI(c).types.elems) = 3
    /\ \A i \in 1..3 : CallAPI(c).types.elems[i].k = "string"

ValidCall(c) == Intercepted(c) /\ WellFormed(c)

\* The positions in the trace of the steps of kind e of invocation c.
Steps(c, e) == {i \in DOMAIN trace : trace[i].c = c /\ trace[i].e = e}

\* The actions invocation c forwarded to next, in order.
IsNextOf(c, ev) == ev.e = "next" /\ ev.c = c
Forwarded(c) == SelectSeq(trace, LAMBDA ev : IsNextOf(c, ev))

\* next returned normally each time invocation c called it.
NextReturned(c) == \A i \in Steps(c, "next") : ~trace[i].threw

\* The promise chain of invocation c has run to its end.
Done(c) == calls[c].pc = "done"

\* The fetch of invocation c failed: it rejected, or its envelope is not ok.
FetchFailed(c) ==
    \/ calls[c].fetch = "rejected"
    \/ calls[c].fetch = "fulfilled" /\ ~calls[c].envelope.ok

\* ------------------------------------------------------------------ C1
\* C1: an intercepted call with a valid descriptor forwards exactly two
\* actions to next, the request action and then the success or the failure
\* action, whatever the fetch settles with: never none, never more than two.
C1_ExactlyTwoForwarded ==
    \A c \in 1..Len(calls) :
        ValidCall(c) /\ NextReturned(c) =>
            LET f == Forwarded(c) IN
            /\ Len(f) \in 1..2
            /\ f[1].action.type = RequestType(c)
            /\ Done(c) =>
                 /\ Len(f) = 2
                 /\ f[2].action.type \in {SuccessType(c), FailureType(c)}

\* ------------------------------------------------------------------ C2
\* C2: for a valid descriptor the promise the middleware returns is never
\* rejected, and it is fulfilled once the call is over, however the fetch
\* ended.
C2_PromiseFulfilled ==
    \A c \in 1..Len(calls) :
        ValidCall(c) /\ NextReturned(c) =>
            /\ calls[c].promise.st # "rejected"
            /\ Done(c) => calls[c].promise.st = "fulfilled"

\* ------------------------------------------------------------------ C3
\* C3: when the envelope's ok flag is false or the fetch rejects, a failure
\* action is forwarded whose error is the failure's message, and the
\* placeholder when there is no message.
C3_FailureForwarded ==
    \A c \in 1..Len(calls) :
        ValidCall(c) /\ Done(c) /\ FetchFailed(c) =>
            LET f == Forwarded(c)
                failure == calls[c].api.reason
            IN  /\ Len(f) = 2
                /\ f[2].action.type = FailureType(c)
                /\ f[2].action.error =
                     IF failure.message \in {NoMsg, ""} THEN Placeholder
                     ELSE failure.message

\* ------------------------------------------------------------------ C4
\* C4: the request action of an intercepted call is forwarded exactly once,
\* during the invocation (before the middleware returns and while the fetch
\* is unsettled); every other action the call forwards is its success or
\* failure action and comes after the request action.
C4_RequestFirst ==
    \A c \in 1..Len(calls) :
        ValidCall(c) =>
            LET nexts == Steps(c, "next")
                ends == Steps(c, "return") \cup Steps(c, "throw")
                sync == {i \in nexts : \A j \in ends : i < j}
            IN  /\ ends # {}
                /\ Cardinality(sync) = 1
                /\ \A i \in sync :
                     /\ trace[i].action.type = RequestType(c)
                     /\ \A j \in nexts \ sync : i < j
                     /\ \A j \in Steps(c, "fetch") : i < j
                /\ \A j \in nexts \ sync :
                     trace[j].action.type \in {SuccessType(c), FailureType(c)}
                /\ Cardinality({i \in nexts : trace[i].action.type = RequestType(c)}) = 1
                /\ calls[c].fetch = "pending" => Cardinality(nexts) = 1

\* A call has forwarded its request action and then its terminal action.
C4_Witness ==
    \E c \in 1..Len(calls) :
        /\ ValidCall(c) /\ Done(c)
        /\ Len(Forwarded(c)) = 2
        /\ Forwarded(c)[1].action.type = RequestType(c)
        /\ Forwarded(c)[2].action.type = FailureType(c)

\* ------------------------------------------------------------------ C5
\* C5: a descriptor whose resolved endpoint is no string, whose schema is
\* falsy, or whose types is not an array of three strings makes the
\* invocation throw; no promise is returned, nothing has been forwarded to
\* next and no fetch has been started.
ConfigurationFaults ==
    { "Specify a string endpoint URL.",
      "Specify one of the exported Schemas.",
      "Expected an array of three action types.",
      "Expected action types to be strings." }

C5_ConfigurationErrors ==
    \A c \in 1..Len(calls) :
        Intercepted(c) /\ ~WellFormed(c) =>
            /\ calls[c].ret = "throw"
            /\ calls[c].value \in ConfigurationFaults
            /\ Steps(c, "throw") # {}
            /\ Steps(c, "return") = {}
            /\ calls[c].promise.st = "none"
            /\ Steps(c, "next") = {}
            /\ Steps(c, "fetch") = {}
            /\ calls[c].fetch = "none"

\* An invocation threw on a types array one of whose elements is no string.
C5_Witness ==
    \E c \in 1..Len(calls) :
        /\ Intercepted(c)
        /\ calls[c].endpoint.k = "string"
        /\ CallAPI(c).schema # "undefined"
        /\ Len(CallAPI(c).types.elems) = 3
        /\ \E i \in 1..3 : CallAPI(c).types.elems[i].k # "string"
        /\ calls[c].ret = "throw"

\* ------------------------------------------------------------------ C6
\* C6: an action without a call descriptor is handed to next once, as it is;
\* the middleware returns what next returned, starts no fetch, does not read
\* the store's state and forwards nothing else.
C6_PassThrough ==
    \A c \in 1..Len(calls) :
        ~Intercepted(c) =>
            LET f == Forwarded(c) IN
            /\ Len(f) = 1
            /\ f[1].action = calls[c].dispatched
            /\ Steps(c, "fetch") = {}
            /\ Steps(c, "getState") = {}
            /\ calls[c].fetch = "none"
            /\ calls[c].promise.st = "none"
            /\ IF f[1].threw
               THEN calls[c].ret = "throw"
               ELSE calls[c].ret = "value" /\ calls[c].value = f[1].arg

\* An action without a descriptor went through and next's result came back.
C6_Witness ==
    \E c \in 1..Len(calls) :
        /\ ~Intercepted(c)
        /\ calls[c].ret = "value"
        /\ Len(Forwarded(c)) = 1

\* ------------------------------------------------------------------ C7
\* The positions among the actions invocation c forwarded of those of type t.
OfType(c, t) == {i \in 1..Len(Forwarded(c)) : Forwarded(c)[i].action.type = t}

\* The fetch of invocation c resolved with an envelope whose ok flag is true.
FetchOk(c) == calls[c].fetch = "fulfilled" /\ calls[c].envelope.ok

\* normalize accepts the envelope's data and the descriptor's schema.
Normalizable(c) ==
    /\ calls[c].envelope.data.k = "object"
    /\ CallAPI(c).schema \in {"PAGE", "EVENT"}

\* The success action's response is the normalized data: its result is the
\* data's id and its entity of that id has the data's keys, camelized.
ResponseOf(response, data) ==
    /\ response.result = data.id
    /\ \E e \in response.entities :
         /\ e.id = data.id
         /\ e.keys = {IF key = "start_time" THEN "startTime" ELSE key : key \in data.keys}

\* C7 as stated: a success action carrying the normalized data is forwarded
\* if and only if the fetch resolved with an envelope whose ok flag is true;
\* then no failure action is forwarded, and in every other settled case no
\* success action is.
C7_SuccessIffOk ==
    \A c \in 1..Len(calls) :
        ValidCall(c) /\ Done(c) =>
            /\ OfType(c, SuccessType(c)) # {} <=> FetchOk(c)
            /\ FetchOk(c) => OfType(c, FailureType(c)) = {}

\* C7 (amended): a success action carrying the normalized data is forwarded
\* if and only if the fetch resolved with an envelope whose ok flag is true
\* and normalize accepted its data; when normalize throws, a failure action
\* with the message thrown is forwarded instead; a call never forwards both a
\* success and a failure action.
C7_SuccessIffOkAndNormalized ==
    \A c \in 1..Len(calls) :
        ValidCall(c) /\ Done(c) =>
            LET f == Forwarded(c) IN
            /\ OfType(c, SuccessType(c)) # {} <=> FetchOk(c) /\ Normalizable(c)
            /\ \A i \in OfType(c, SuccessType(c)) :
                 /\ "response" \in DOMAIN f[i].action
                 /\ ResponseOf(f[i].action.response, calls[c].envelope.data)
            /\ OfType(c, SuccessType(c)) = {} \/ OfType(c, FailureType(c)) = {}
            /\ FetchOk(c) /\ ~Normalizable(c) =>
                 /\ OfType(c, FailureType(c)) # {}
                 /\ \A i \in OfType(c, FailureType(c)) :
                      f[i].action.error \in
                        { "Normalize accepts an object or an array as its input.",
                          "Normalize accepts an object for schema." }

\* A fetch resolved with ok true and a page, and the success action with the
\* normalized page was forwarded.
C7_Witness ==
    \E c \in 1..Len(calls) :
        /\ ValidCall(c) /\ Done(c) /\ FetchOk(c)
        /\ calls[c].envelope.data.id = "p1"
        /\ OfType(c, SuccessType(c)) = {2}
        /\ Forwarded(c)[2].action.response.result = "p1"

\* ------------------------------------------------------------------ C9
\* The fields the middleware sets in the i-th action a call forwards.
SetFields(c, i) ==
    LET type == Forwarded(c)[i].action.type IN
    IF i = 1 THEN {"type"}
    ELSE IF type = SuccessType(c) THEN {"type", "response"}
    ELSE {"type", "error"}

\* The entry of types the i-th forwarded action takes its type from.
TypeEntry(c, i) ==
    IF i = 1 THEN {RequestType(c)} ELSE {SuccessType(c), FailureType(c)}

\* Forwarded action fwd keeps the fields of the dispatched action but those
\* in `set` and the descriptor, which it does not have.
KeepsFields(fwd, dispatched, set) ==
    /\ CALL_FBOG \notin DOMAIN fwd
    /\ \A k \in DOMAIN dispatched \ ({CALL_FBOG} \cup set) :
         k \in DOMAIN fwd /\ fwd[k] = dispatched[k]

\* C9 as stated: every action forwarded for an intercepted call has all the
\* fields of the dispatched action, with type replaced by the entry of types
\* and without the descriptor; the dispatched object is unchanged and still
\* has its descriptor.
C9_FieldsKept ==
    \A c \in 1..Len(calls) :
        ValidCall(c) =>
            /\ \A i \in 1..Len(Forwarded(c)) :
                 /\ KeepsFields(Forwarded(c)[i].action, calls[c].dispatched, {"type"})
                 /\ Forwarded(c)[i].action.type \in TypeEntry(c, i)
            /\ calls[c].action = calls[c].dispatched
            /\ CALL_FBOG \in DOMAIN calls[c].action

\* C9 (amended): every action forwarded for an intercepted call has the
\* fields of the dispatched action, except that type is the entry of types,
\* that response (success action) or error (failure action) is the one the
\* middleware sets, replacing a dispatched field of that name, and that the
\* descriptor is absent; the dispatched object is unchanged and still has its
\* descriptor.
C9_FieldsMerged ==
    \A c \in 1..Len(calls) :
        ValidCall(c) =>
            /\ \A i \in 1..Len(Forwarded(c)) :
                 LET fwd == Forwarded(c)[i].action IN
                 /\ KeepsFields(fwd, calls[c].dispatched, SetFields(c, i))
                 /\ DOMAIN fwd =
                      (DOMAIN calls[c].dispatched \ {CALL_FBOG}) \cup SetFields(c, i)
                 /\ fwd.type \in TypeEntry(c, i)
            /\ calls[c].action = calls[c].dispatched
            /\ CALL_FBOG \in DOMAIN calls[c].action

\* A failure action was forwarded for a dispatched action that has an error
\* field of its own and a payload.
C9_Witness ==
    \E c \in 1..Len(calls) :
        /\ ValidCall(c) /\ Done(c)
        /\ "error" \in DOMAIN calls[c].dispatched
        /\ OfType(c, FailureType(c)) = {2}
        /\ Forwarded(c)[2].action.error = "boom"
        /\ Forwarded(c)[2].action.payload = calls[c].dispatched.payload

\* ----------------------------------------------------------------- C10
\* C10: a function-valued endpoint is called once per intercepted call,
\* during the invocation, with the store's state of that moment, and the
\* string it returns is what is fetched, whatever the state becomes later;
\* the state is read at most once per call, never after the middleware has
\* returned, and not at all for a string endpoint.
C10_StateReadOnce ==
    \A c \in 1..Len(calls) :
        Intercepted(c) =>
            LET reads == Steps(c, "getState")
                ends == Steps(c, "return") \cup Steps(c, "throw")
                fetches == Steps(c, "fetch")
                endpoint == CallAPI(c).endpoint
            IN  IF endpoint.k = "function"
                THEN /\ Cardinality(reads) = 1
                     /\ \A i \in reads :
                          /\ trace[i].arg = trace[i].at
                          /\ \A j \in ends \cup fetches : i < j
                          /\ endpoint.v = "byState" =>
                               \A j \in fetches :
                                 trace[j].arg = IF trace[i].at = "s0" THEN "/u0" ELSE "/u1"
                ELSE /\ reads = {}
                     /\ endpoint.k = "string" => \A j \in fetches : trace[j].arg = endpoint.v

\* A call whose endpoint function saw state s1 fetched /u1, and the store's
\* state has changed since.
C10_Witness ==
    \E c \in 1..Len(calls) :
        /\ ValidCall(c) /\ Done(c)
        /\ CallAPI(c).endpoint = Fun("byState")
        /\ \E i \in Steps(c, "getState") : trace[i].at = "s1"
        /\ \E j \in Steps(c, "fetch") : trace[j].arg = "/u1"
        /\ state = "s0"

\* ------------------------------------------------------------------ C8
\* The position in the trace of the i-th action invocation c forwarded.
ForwardedAt(c, i) ==
    CHOOSE p \in Steps(c, "next") :
        Cardinality({q \in Steps(c, "next") : q <= p}) = i

\* The action is built from the dispatched action of invocation c.
BuiltFrom(c, fwd) ==
    /\ CALL_FBOG \notin DOMAIN fwd
    /\ fwd.payload = calls[c].dispatched.payload

RequestReturned(c) ==
    /\ Steps(c, "next") # {}
    /\ ~Forwarded(c)[1].threw

C12_SettlesAfterTerminal ==
    \A c \in 1..Len(calls) :
        ValidCall(c) /\ calls[c].ret = "promise" =>
            /\ calls[c].fetch = "pending" => calls[c].promise.st = "pending"
            /\ calls[c].promise.st \in {"fulfilled", "rejected"} =>
                 /\ Len(Forwarded(c)) = 2
                 /\ Forwarded(c)[1].action.type = RequestType(c)
                 /\ Forwarded(c)[2].action.type \in {SuccessType(c), FailureType(c)}

\* ----------------------------------------------------------------- C13
\* C13: in the success action of a page response, response.entities has a
\* page entry if and only if the JSON had an id, and a nested events list is
\* flattened into one events entity per event and replaced in the page
\* record by the list of the events' ids, in the order of the input.
C13_PageNormalized ==
    \A c \in 1..Len(calls) :
        ValidCall(c) /\ CallAPI(c).schema = "PAGE" =>
            \A i \in OfType(c, SuccessType(c)) :
                LET response == Forwarded(c)[i].action.response
                    json == calls[c].envelope.data
                    pages == {e \in response.entities : e.key = pageSchemaKey}
                IN  /\ pages # {} <=> json.id # NoId
                    /\ json.events # <<>> =>
                         /\ \A n \in 1..Len(json.events) :
                              \E e \in response.entities :
                                  e.key = eventSchemaKey /\ e.id = json.events[n]
                         /\ \A page \in pages : page.events = Ref("list", json.events)

\* ----------------------------------------------------------------- C14
\* next threw on the success action of invocation c.
SuccessFaulted(c) ==
    \E i \in OfType(c, SuccessType(c)) : Forwarded(c)[i].threw

\* C14: when next throws on the success action, no failure action is
\* forwarded for the call, which thus never forwards both a success and a
\* failure action, and the promise returned is rejected with next's fault.
C14_SuccessFaultNotRecovered ==
    \A c \in 1..Len(calls) :
        ValidCall(c) =>
            /\ OfType(c, SuccessType(c)) = {} \/ OfType(c, FailureType(c)) = {}
            /\ SuccessFaulted(c) =>
                 /\ Len(Forwarded(c)) = 2
                 /\ calls[c].promise = PromiseRejected(ErrorObj("nextFault"))

\* next threw on a success action and the call is over.
C14_Witness ==
    \E c \in 1..Len(calls) :
        /\ ValidCall(c) /\ Done(c)
        /\ SuccessFaulted(c)
        /\ calls[c].promise.st = "rejected"

\* ----------------------------------------------------------------- C15
\* next threw on the request action of invocation c.
RequestFaulted(c) ==
    /\ Steps(c, "next") # {}
    /\ Forwarded(c)[1].threw

\* C15: when next throws on the request action, the fault leaves the
\* middleware invocation, no fetch is started, and the call forwards no
\* success or failure action.
C15_RequestFaultPropagates ==
    \A c \in 1..Len(calls) :
        ValidCall(c) /\ RequestFaulted(c) =>
            /\ calls[c].ret = "throw"
            /\ calls[c].value = "nextFault"
            /\ calls[c].pc = "threw"
            /\ Steps(c, "throw") # {} /\ Steps(c, "return") = {}
            /\ calls[c].promise.st = "none"
            /\ Steps(c, "fetch") = {}
            /\ calls[c].fetch = "none"
            /\ Len(Forwarded(c)) = 1

\* next threw on the request action of a call with a valid descriptor.
C15_Witness ==
    \E c \in 1..Len(calls) :
        /\ ValidCall(c) /\ RequestFaulted(c)
        /\ Forwarded(c)[1].action.type = RequestType(c)
        /\ calls[c].ret = "throw"

\* ----------------------------------------------------------------- C16
\* The fault the descriptor of invocation c must raise: the first, in the
\* order endpoint, schema, types length, types elements.
FirstFault(c) ==
    IF calls[c].endpoint.k # "string" THEN "Specify a string endpoint URL."
    ELSE IF CallAPI(c).schema = "undefined" THEN "Specify one of the exported Schemas."
    ELSE IF ~CallAPI(c).types.isArray \/ Len(CallAPI(c).types.elems) # 3
    THEN "Expected an array of three action types."
    ELSE "Expected action types to be strings."

\* C16: a function-valued endpoint is called with the store's state before
\* anything is validated, also when schema or types are invalid, and of
\* several invalid fields the fault raised is the first in the order
\* endpoint, schema, types length, types element type.
C16_ResolveThenValidateInOrder ==
    \A c \in 1..Len(calls) :
        Intercepted(c) /\ ~WellFormed(c) =>
            /\ calls[c].value = FirstFault(c)
            /\ CallAPI(c).endpoint.k = "function" =>
                 /\ Steps(c, "getState") # {}
                 /\ \A i \in Steps(c, "getState"), j \in Steps(c, "throw") :
                      i < j /\ trace[i].arg = trace[i].at

\* An endpoint function that gives a URL was called for a descriptor whose
\* schema is missing and whose types has two elements, one of them no
\* string; the fault is the one of the schema.
C16_Witness ==
    \E c \in 1..Len(calls) :
        /\ Intercepted(c)
        /\ CallAPI(c).endpoint = Fun("byState")
        /\ CallAPI(c).schema = "undefined"
        /\ Len(CallAPI(c).types.elems) = 2
        /\ \E i \in 1..2 : CallAPI(c).types.elems[i].k # "string"
        /\ Steps(c, "getState") # {}
        /\ calls[c].value = "Specify one of the exported Schemas."

====
